---------------------------- MODULE Spec2Model ----------------------------
(***************************************************************************)
(* De Bruijn graph assembler (debruijn.py): frequency table, graph         *)
(* construction, best-path selection, bubble simplification, source/sink   *)
(* detection and contig extraction.                                        *)
(*                                                                         *)
(* Strings are sequences of one-letter strings, so slicing and indexing    *)
(* are computed.  A networkx DiGraph is a record that keeps what the code  *)
(* observes of it: the node order (insertion order), each node's ordered   *)
(* successor and predecessor lists, and the edge weights.                  *)
(***************************************************************************)
EXTENDS Integers, Sequences, FiniteSets, TLC

\* ------------------------------------------------------------------ bounds
\* Largest sum of the k-mer counts of a frequency table given to the bubble
\* simplifier (every edge weighs at least 1, so it bounds the edges too).
MaxWeightSum == 6

\* Largest number of competing paths given to select_best_path directly.
MaxPaths == 3

\* Largest sum of the counts of a frequency table given to build_graph.
MaxCountSum == 4

\* Most reads, and longest read, given to build_kmer_dict.
MaxReads == 2
MaxReadLen == 3

\* The k-mer sizes, and the letters of the reads and tables, of the k-mer
\* and assembly specifications.
KmerSizes == {2, 3}
TableLetters == {"A", "C"}

\* The letters of a read.  Nodes of the bubble specification are the
\* (k-1)-mers for k = 2, i.e. single letters: every directed graph on the
\* letters is then the de Bruijn graph of some table of 2-mers.
Alphabet == <<"A", "C", "G", "T">>

\* Python's None (no node label is empty: k >= 2).
None == <<>>

\* ----------------------------------------------------------------- helpers
Range(s) == {s[i] : i \in 1..Len(s)}

Last(s) == s[Len(s)]

\* s[lo:hi] of Python for 0 <= lo, hi <= len(s) (0-based, hi excluded).
Slice(s, lo, hi) == IF hi <= lo THEN <<>> ELSE SubSeq(s, lo + 1, hi)

\* s without its elements that are in the set drop, order kept.
RECURSIVE Without(_, _)
Without(s, drop) ==
    IF s = <<>> THEN <<>>
    ELSE IF Head(s) \in drop THEN Without(Tail(s), drop)
         ELSE <<Head(s)>> \o Without(Tail(s), drop)

RECURSIVE SumOver(_, _)
SumOver(f, S) ==
    IF S = {} THEN 0
    ELSE LET x == CHOOSE y \in S : TRUE IN f[x] + SumOver(f, S \ {x})

\* ------------------------------------------------------------- nx.DiGraph
EmptyGraph == [nodes |-> <<>>, succ |-> <<>>, pred |-> <<>>, weight |-> <<>>]

NodeSet(g) == Range(g.nodes)

EdgeSet(g) == DOMAIN g.weight

\* graph.add_edge(u, v, weight=w): new nodes are appended to the node order
\* (u first), a new edge to u's successors and v's predecessors; an edge that
\* exists keeps its place and has its weight overwritten.
AddEdge(g, u, v, w) ==
    LET n1  == IF u \in NodeSet(g) THEN g.nodes ELSE Append(g.nodes, u)
        n2  == IF v \in Range(n1) THEN n1 ELSE Append(n1, v)
        ns  == Range(n2)
        has == <<u, v>> \in EdgeSet(g)
        s1  == [x \in ns |-> IF x \in NodeSet(g) THEN g.succ[x] ELSE <<>>]
        p1  == [x \in ns |-> IF x \in NodeSet(g) THEN g.pred[x] ELSE <<>>]
    IN  [nodes  |-> n2,
         succ   |-> IF has THEN s1 ELSE [s1 EXCEPT ![u] = Append(@, v)],
         pred   |-> IF has THEN p1 ELSE [p1 EXCEPT ![v] = Append(@, u)],
         weight |-> [e \in EdgeSet(g) \cup {<<u, v>>} |->
                        IF e = <<u, v>> THEN w ELSE g.weight[e]]]

\* graph.remove_nodes_from(ns): the nodes of ns that are in the graph go,
\* with every edge that touches them; the others are silently skipped.
RemoveNodesFrom(g, ns) ==
    LET drop == Range(ns) \cap NodeSet(g)
        keep == NodeSet(g) \ drop
    IN  [nodes  |-> Without(g.nodes, drop),
         succ   |-> [x \in keep |-> Without(g.succ[x], drop)],
         pred   |-> [x \in keep |-> Without(g.pred[x], drop)],
         weight |-> [e \in {f \in EdgeSet(g) : f[1] \in keep /\ f[2] \in keep}
                        |-> g.weight[e]]]

\* nx.ancestors(G, n) together with n itself.
RECURSIVE AncestorsFrom(_, _)
AncestorsFrom(g, S) ==
    LET T == S \cup UNION {Range(g.pred[x]) : x \in S}
    IN  IF T = S THEN S ELSE AncestorsFrom(g, T)

Ancestors(g, n) == AncestorsFrom(g, {n})

\* nx.is_directed_acyclic_graph(G): no node reaches itself by an edge.
IsDag(g) ==
    \A n \in NodeSet(g) :
        \A p \in Range(g.pred[n]) : n \notin Ancestors(g, p)

\* The nodes nx.lowest_common_ancestor(G, a, b) may return on a DAG: the
\* common ancestors (a node is its own ancestor) none of whose successors is
\* a common ancestor.  networkx starts at an arbitrary common ancestor (set
\* iteration order) and walks down, so each of them can be the answer; the
\* empty set stands for the default, None.
LowestCommonAncestors(g, a, b) ==
    LET common == Ancestors(g, a) \cap Ancestors(g, b)
    IN  {c \in common : Range(g.succ[c]) \cap common = {}}

\* list(nx.all_simple_paths(G, source, target)) for source # target, both in
\* G: a depth-first walk that follows each node's successors in order and
\* never continues through the target.
RECURSIVE PathsFrom(_, _, _, _)
PathsFrom(g, path, target, i) ==
    LET cs == g.succ[Last(path)]
    IN  IF i > Len(cs) THEN <<>>
        ELSE LET c    == cs[i]
                 here == IF c \in Range(path) THEN <<>>
                         ELSE IF c = target THEN <<Append(path, c)>>
                         ELSE PathsFrom(g, Append(path, c), target, 1)
             IN  here \o PathsFrom(g, path, target, i + 1)

AllSimplePaths(g, source, target) == PathsFrom(g, <<source>>, target, 1)


\* --------------------------------------------------------------- variables
VARIABLES
    pc,                \* where the run is
    err,               \* the exception that ended the run, or "none"
    reads,             \* build_kmer_dict: the reads read_fastq yields
    kmer_size,         \* the k-mer size k
    read_idx,          \* build_kmer_dict: how many reads are done
    kmer_counts,       \* build_kmer_dict: the dictionary being filled
    kmer_dict,         \* build_graph's frequency table, <<k-mer, count>> items
    graph,             \* the nx.DiGraph
    entry,             \* the graph as first given to the function under study
    noeud_ancetre,     \* simplify_bubbles: last value assigned by the scan
    node,              \* simplify_bubbles: the node the scan stopped at
    prev,              \* <<ancestor, node, graph>> of the previous solve_bubble call
    intact,            \* no select_best_path call so far deleted a node of the path it kept
    path_list,         \* the candidate paths given to select_best_path
    path_length,       \* their lengths
    weight_avg_list,   \* their mean weights, each a fraction <<sum, count>>
    delete_entry_node, \* select_best_path's flags
    delete_sink_node,
    select,            \* select_best_path: position of the path kept (0: none yet)
    removed,           \* select_best_path: path_list once the selected path is cut out
    starting_nodes,    \* result of get_starting_nodes
    sink_nodes,        \* result of get_sink_nodes
    contigs            \* result of get_contigs

kmerVars == <<reads, kmer_size, read_idx, kmer_counts>>
tableVars == <<kmer_dict, contigs>>
bubbleVars == <<entry, noeud_ancetre, node, prev, intact>>
selectVars == <<path_list, path_length, weight_avg_list, delete_entry_node,
                delete_sink_node, select, removed>>
endVars == <<starting_nodes, sink_nodes>>

vars == <<pc, err, graph, kmerVars, tableVars, bubbleVars, selectVars, endVars>>

\* The variables a specification does not use.
IdleKmer == reads = <<>> /\ read_idx = 0 /\ kmer_counts = <<>>
IdleTable == kmer_dict = <<>> /\ contigs = <<>>
IdleBubble ==
    /\ noeud_ancetre = None
    /\ node = None
    /\ prev = <<>>
    /\ intact = TRUE
IdleSelect ==
    /\ path_list = <<>>
    /\ path_length = <<>>
    /\ weight_avg_list = <<>>
    /\ delete_entry_node = FALSE
    /\ delete_sink_node = FALSE
    /\ select = 0
    /\ removed = <<>>
IdleEnd == starting_nodes = <<>> /\ sink_nodes = <<>>

\* ------------------------------------------------------------ path metrics
\* statistics.mean over the weights of graph.subgraph(path).edges: every
\* edge of the graph with both ends on the path, as the fraction <<sum, count>>.
path_average_weight(g, path) ==
    LET es == {e \in EdgeSet(g) : e[1] \in Range(path) /\ e[2] \in Range(path)}
    IN  <<SumOver(g.weight, es), Cardinality(es)>>

\* Comparison of two means (count > 0) without dividing.
MeanLess(a, b) == a[1] * b[2] < b[1] * a[2]
MeanEq(a, b) == a[1] * b[2] = b[1] * a[2]

\* statistics.stdev(xs) > 0 for two or more values: they are not all equal.
WeightsDiffer(ws) == \E i, j \in 1..Len(ws) : ~MeanEq(ws[i], ws[j])
LengthsDiffer(ls) == \E i, j \in 1..Len(ls) : ls[i] # ls[j]

\* xs.index(max(xs)): the first position of a greatest element (1-based).
IndexOfMaxWeight(ws) ==
    CHOOSE i \in 1..Len(ws) :
        /\ \A j \in 1..Len(ws) : ~MeanLess(ws[i], ws[j])
        /\ \A j \in 1..(i - 1) : MeanLess(ws[j], ws[i])

IndexOfMaxLength(ls) ==
    CHOOSE i \in 1..Len(ls) :
        /\ \A j \in 1..Len(ls) : ls[j] <= ls[i]
        /\ \A j \in 1..(i - 1) : ls[j] < ls[i]

\* path_list[:select] + path_list[select+1:] for the 1-based position sel.
CutOut(pl, sel) == SubSeq(pl, 1, sel - 1) \o SubSeq(pl, sel + 1, Len(pl))

\* ------------------------------------------------------------ remove_paths
\* The nodes of one path that remove_paths takes out of the graph.
PathSlice(path, de, ds) ==
    IF de /\ ds THEN path
    ELSE IF ~de /\ ~ds THEN Slice(path, 1, Len(path) - 1)
    ELSE IF ~de /\ ds THEN Slice(path, 1, Len(path))
    ELSE Slice(path, 0, Len(path) - 1)

RECURSIVE remove_paths(_, _, _, _)
remove_paths(g, pl, de, ds) ==
    IF pl = <<>> THEN g
    ELSE remove_paths(RemoveNodesFrom(g, PathSlice(Head(pl), de, ds)),
                      Tail(pl), de, ds)

\* -------------------------------------------------------- select_best_path
\* number_path is the value random.randint(0, len(path_list)) returns (both
\* ends included).  The result names the exception raised, if any, the list
\* position of the path kept, the list handed to remove_paths and the graph
\* afterwards.
select_best_path(g, pl, ls, ws, de, ds, number_path) ==
    LET ok(sel) == [err |-> "none", select |-> sel,
                    removed |-> CutOut(pl, sel),
                    graph |-> remove_paths(g, CutOut(pl, sel), de, ds)]
        raise(e) == [err |-> e, select |-> 0, removed |-> pl, graph |-> g]
    IN  IF Len(ws) < 2 THEN raise("StatisticsError")
        ELSE IF WeightsDiffer(ws) THEN ok(IndexOfMaxWeight(ws))
        ELSE IF Len(ls) < 2 THEN raise("StatisticsError")
        ELSE IF LengthsDiffer(ls) THEN ok(IndexOfMaxLength(ls))
        \* select = path_list[number_path] is a path, not a position:
        \* path_list[:select] raises TypeError, unless the index was already
        \* out of range.
        ELSE IF number_path >= Len(pl) THEN raise("IndexError")
        ELSE raise("TypeError")

\* ------------------------------------------------------------ solve_bubble
\* Lines 200-205: the candidate paths and their metrics.
PathLengths(pl) == [i \in 1..Len(pl) |-> Len(pl[i])]
PathWeights(g, pl) == [i \in 1..Len(pl) |-> path_average_weight(g, pl[i])]

\* -------------------------------------------------------- simplify_bubbles
\* The two loops over the pairs (i, j) of predecessors of one node, lines
\* 222-229, from pair (i, j) on (1-based).  `break` leaves the j loop only:
\* the i loop goes on and may assign noeud_ancetre again.  The result is the
\* set of possible outcomes, one per choice of lowest common ancestor.
RECURSIVE PairScan(_, _, _, _, _, _)
PairScan(g, preds, i, j, bubble, anc) ==
    IF i > Len(preds) THEN {[err |-> "none", bubble |-> bubble, anc |-> anc]}
    ELSE IF j > Len(preds) THEN PairScan(g, preds, i + 1, i + 2, bubble, anc)
    ELSE IF ~IsDag(g)
         THEN {[err |-> "NetworkXError", bubble |-> bubble, anc |-> anc]}
    ELSE LET lcas == LowestCommonAncestors(g, preds[i], preds[j])
         IN  IF lcas = {} THEN PairScan(g, preds, i, j + 1, bubble, None)
             ELSE UNION {PairScan(g, preds, i + 1, i + 2, TRUE, a) : a \in lcas}

\* The loop over the nodes, lines 219-231, from the k-th node on.
RECURSIVE NodeScan(_, _)
NodeScan(g, k) ==
    IF k > Len(g.nodes)
    THEN {[err |-> "none", bubble |-> FALSE, anc |-> None, node |-> None]}
    ELSE LET d == g.nodes[k]
             preds == g.pred[d]
         IN  IF Len(preds) > 1
             THEN UNION {IF r.err # "none" \/ r.bubble
                         THEN {[err |-> r.err, bubble |-> r.bubble,
                                anc |-> r.anc, node |-> d]}
                         ELSE NodeScan(g, k + 1)
                         : r \in PairScan(g, preds, 1, 2, FALSE, None)}
             ELSE NodeScan(g, k + 1)

\* ------------------------------------------------ get_starting/sink_nodes
RECURSIVE NodesWithout(_, _, _)
NodesWithout(g, adj, k) ==
    IF k > Len(g.nodes) THEN <<>>
    ELSE (IF Len(adj[g.nodes[k]]) = 0 THEN <<g.nodes[k]>> ELSE <<>>)
         \o NodesWithout(g, adj, k + 1)

\* A faulty get_starting_nodes, which looks at the successors: C9 does not
\* hold of it.
get_starting_nodes_succ(g) == NodesWithout(g, g.succ, 1)

get_starting_nodes(g) == NodesWithout(g, g.pred, 1)

get_sink_nodes(g) == NodesWithout(g, g.succ, 1)

\* ------------------------------------------------- the bubble simplifier
\* main(), k = 2: build_graph adds one edge per 2-mer of the frequency
\* table, then simplify_bubbles runs on the graph.  Letters are taken up to
\* renaming: a letter that is new to the graph is the next of the alphabet.
\* The table holds no 2-mer of one repeated letter (a self-loop); graphs with
\* cycles are those with longer cycles.
WeightSum(g) == SumOver(g.weight, EdgeSet(g))

\* The first n letters and the next one, as node labels.
NextLetters(n) ==
    {<<Alphabet[i]>> : i \in 1..(IF n < Len(Alphabet) THEN n + 1 ELSE Len(Alphabet))}

\* A faulty scan, which skips the first node of the graph: C4 does not hold
\* of it.
ScanOutcomesSkipFirst(g) == NodeScan(g, 2)

\* simplify_bubbles lines 217-231: one scan of the graph.
ScanOutcomes(g) == NodeScan(g, 1)

InitBubble ==
    /\ pc = "build"
    /\ err = "none"
    /\ kmer_size = 2
    /\ graph = EmptyGraph
    /\ entry = EmptyGraph
    /\ IdleKmer /\ IdleTable /\ IdleBubble /\ IdleSelect /\ IdleEnd

\* build_graph, one item of kmer_dict: graphique.add_edge(k[:-1], k[1:], weight=v).
BuildGraphEdge ==
    /\ pc = "build"
    /\ \E u \in NextLetters(Len(graph.nodes)) :
         \E v \in NextLetters(Cardinality(NodeSet(graph) \cup {u})) :
           \E w \in 1..(MaxWeightSum - WeightSum(graph)) :
             /\ u # v
             /\ <<u, v>> \notin EdgeSet(graph)
             /\ graph' = AddEdge(graph, u, v, w)
    /\ UNCHANGED <<pc, err, kmerVars, tableVars, bubbleVars, selectVars, endVars>>

\* main() line 359: simplify_bubbles(graph).
CallSimplifyBubbles ==
    /\ pc = "build"
    /\ pc' = "scan"
    /\ entry' = graph
    /\ UNCHANGED <<err, graph, kmerVars, tableVars, noeud_ancetre, node, prev,
                   intact, selectVars, endVars>>

\* simplify_bubbles lines 217-231, a scan that finds a bubble.
ScanBubble ==
    /\ pc = "scan"
    /\ \E r \in ScanOutcomes(graph) :
         /\ r.err = "none" /\ r.bubble
         /\ noeud_ancetre' = r.anc
         /\ node' = r.node
    /\ pc' = "solve"
    /\ UNCHANGED <<err, graph, kmerVars, tableVars, entry, prev, intact,
                   selectVars, endVars>>

\* A scan that finds none: line 234 returns the graph.
ScanReturn ==
    /\ pc = "scan"
    /\ \E r \in ScanOutcomes(graph) : r.err = "none" /\ ~r.bubble
    /\ pc' = "returned"
    /\ UNCHANGED <<err, graph, kmerVars, tableVars, bubbleVars, selectVars, endVars>>

\* A scan that asks for a lowest common ancestor on a graph with a cycle.
ScanError ==
    /\ pc = "scan"
    /\ \E r \in ScanOutcomes(graph) : r.err # "none" /\ err' = r.err
    /\ pc' = "error"
    /\ UNCHANGED <<graph, kmerVars, tableVars, bubbleVars, selectVars, endVars>>

\* Line 233, solve_bubble(graph, noeud_ancetre, node), lines 200-205.
SolveBubblePaths ==
    /\ pc = "solve"
    /\ noeud_ancetre \in NodeSet(graph)
    /\ path_list' = AllSimplePaths(graph, noeud_ancetre, node)
    /\ path_length' = PathLengths(path_list')
    /\ weight_avg_list' = PathWeights(graph, path_list')
    /\ delete_entry_node' = FALSE
    /\ delete_sink_node' = FALSE
    /\ pc' = "select"
    /\ UNCHANGED <<err, graph, kmerVars, tableVars, bubbleVars, select, removed,
                   endVars>>

\* nx.all_simple_paths raises NodeNotFound for a source that is no node
\* (None is none).
SolveBubbleNoSource ==
    /\ pc = "solve"
    /\ noeud_ancetre \notin NodeSet(graph)
    /\ err' = "NodeNotFound"
    /\ pc' = "error"
    /\ UNCHANGED <<graph, kmerVars, tableVars, bubbleVars, selectVars, endVars>>

\* Lines 207-209 and 233: select_best_path, then simplify_bubbles again.
SelectBestPath ==
    /\ pc = "select"
    /\ \E number_path \in 0..Len(path_list) :
         LET r == select_best_path(graph, path_list, path_length,
                                   weight_avg_list, delete_entry_node,
                                   delete_sink_node, number_path)
         IN  /\ r.err = "none"
             /\ select' = r.select
             /\ removed' = r.removed
             /\ graph' = r.graph
             /\ intact' = (intact /\ Range(path_list[r.select]) \subseteq NodeSet(r.graph))
    /\ prev' = <<noeud_ancetre, node, graph>>
    /\ pc' = "scan"
    /\ UNCHANGED <<err, kmerVars, tableVars, entry, noeud_ancetre, node,
                   path_list, path_length, weight_avg_list, delete_entry_node,
                   delete_sink_node, endVars>>

SelectBestPathRaises ==
    /\ pc = "select"
    /\ \E number_path \in 0..Len(path_list) :
         LET r == select_best_path(graph, path_list, path_length,
                                   weight_avg_list, delete_entry_node,
                                   delete_sink_node, number_path)
         IN  /\ r.err # "none"
             /\ err' = r.err
    /\ pc' = "error"
    /\ UNCHANGED <<graph, kmerVars, tableVars, bubbleVars, selectVars, endVars>>

\* get_starting_nodes(graph) on the graph a finished stage left.
GetStartingNodes ==
    /\ pc = "returned"
    /\ starting_nodes' = get_starting_nodes(graph)
    /\ pc' = "starts"
    /\ UNCHANGED <<err, graph, kmerVars, tableVars, bubbleVars, selectVars,
                   sink_nodes>>

GetSinkNodes ==
    /\ pc = "starts"
    /\ sink_nodes' = get_sink_nodes(graph)
    /\ pc' = "done"
    /\ UNCHANGED <<err, graph, kmerVars, tableVars, bubbleVars, selectVars,
                   starting_nodes>>

NextBubble ==
    \/ BuildGraphEdge
    \/ CallSimplifyBubbles
    \/ ScanBubble
    \/ ScanReturn
    \/ ScanError
    \/ SolveBubblePaths
    \/ SolveBubbleNoSource
    \/ SelectBestPath
    \/ SelectBestPathRaises
    \/ GetStartingNodes
    \/ GetSinkNodes

SpecBubble == InitBubble /\ [][NextBubble]_vars

\* ------------------------------------------------ select_best_path alone
\* select_best_path called as its unit tests call it: a graph made of the
\* candidate paths, all from A to T through C and G, the paths' lengths, a
\* mean weight for each and the two flags.
CandidatePaths ==
    {<<<<"A">>>> \o mid \o <<<<"T">>>> :
        mid \in {<<>>, <<<<"C">>>>, <<<<"G">>>>, <<<<"C">>, <<"G">>>>,
                 <<<<"G">>, <<"C">>>>}}

PathLists(n) ==
    {pl \in [1..n -> CandidatePaths] : \A i, j \in 1..n : pl[i] = pl[j] => i = j}

MeanValues == {<<1, 1>>, <<3, 2>>, <<2, 1>>}

RECURSIVE AddPath(_, _, _)
AddPath(g, path, i) ==
    IF i >= Len(path) THEN g
    ELSE AddPath(AddEdge(g, path[i], path[i + 1], 1), path, i + 1)

RECURSIVE GraphOfPaths(_, _)
GraphOfPaths(g, pl) ==
    IF pl = <<>> THEN g ELSE GraphOfPaths(AddPath(g, Head(pl), 1), Tail(pl))

InitSelect ==
    /\ pc = "call"
    /\ err = "none"
    /\ kmer_size = 2
    /\ \E n \in 2..MaxPaths :
         /\ path_list \in PathLists(n)
         /\ weight_avg_list \in [1..n -> MeanValues]
    /\ path_length = PathLengths(path_list)
    /\ delete_entry_node \in BOOLEAN
    /\ delete_sink_node \in BOOLEAN
    /\ select = 0
    /\ removed = <<>>
    /\ graph = GraphOfPaths(EmptyGraph, path_list)
    /\ entry = graph
    /\ IdleKmer /\ IdleTable /\ IdleBubble /\ IdleEnd

CallSelectBestPath ==
    /\ pc = "call"
    /\ \E number_path \in 0..Len(path_list) :
         LET r == select_best_path(graph, path_list, path_length,
                                   weight_avg_list, delete_entry_node,
                                   delete_sink_node, number_path)
         IN  /\ r.err = "none"
             /\ select' = r.select
             /\ removed' = r.removed
             /\ graph' = r.graph
    /\ pc' = "selected"
    /\ UNCHANGED <<err, kmerVars, tableVars, bubbleVars, path_list, path_length,
                   weight_avg_list, delete_entry_node, delete_sink_node, endVars>>

CallSelectBestPathRaises ==
    /\ pc = "call"
    /\ \E number_path \in 0..Len(path_list) :
         LET r == select_best_path(graph, path_list, path_length,
                                   weight_avg_list, delete_entry_node,
                                   delete_sink_node, number_path)
         IN  /\ r.err # "none"
             /\ err' = r.err
    /\ pc' = "error"
    /\ UNCHANGED <<graph, kmerVars, tableVars, bubbleVars, selectVars, endVars>>

NextSelect == CallSelectBestPath \/ CallSelectBestPathRaises

SpecSelect == InitSelect /\ [][NextSelect]_vars

\* --------------------------------------------- build_graph and get_contigs
\* A frequency table is a Python dict: <<k-mer, count>> items in insertion
\* order, no k-mer twice.
Kmers(k) == [1..k -> TableLetters]

Keys(t) == {t[i][1] : i \in 1..Len(t)}

RECURSIVE CountSum(_)
CountSum(t) == IF t = <<>> THEN 0 ELSE Head(t)[2] + CountSum(Tail(t))

\* The tables of at most n items whose counts are positive and sum to
\* MaxCountSum at most.
RECURSIVE Tables(_, _)
Tables(k, n) ==
    IF n = 0 THEN {<<>>}
    ELSE LET T == Tables(k, n - 1)
         IN  T \cup UNION {UNION {{Append(t, <<m, c>>) :
                                       c \in 1..(MaxCountSum - CountSum(t))} :
                                  m \in Kmers(k) \ Keys(t)} :
                           t \in T}

\* A faulty edge, from the suffix to the prefix: C5 does not hold of it.
KmerEdgeSwapped(item) ==
    <<Slice(item[1], 1, Len(item[1])), Slice(item[1], 0, Len(item[1]) - 1), item[2]>>

\* Line 126: the edge of one item (k, v): from k[:-1] to k[1:], weight v.
KmerEdge(item) ==
    <<Slice(item[1], 0, Len(item[1]) - 1), Slice(item[1], 1, Len(item[1])), item[2]>>

RECURSIVE BuildFrom(_, _)
BuildFrom(g, t) ==
    IF t = <<>> THEN g
    ELSE LET e == KmerEdge(Head(t))
         IN  BuildFrom(AddEdge(g, e[1], e[2], e[3]), Tail(t))

build_graph(t) == BuildFrom(EmptyGraph, t)

\* A faulty contig, made of the first letter of the later nodes: C8 does not
\* hold of it.
ContigOfFirstLetters(path) ==
    path[1] \o [i \in 1..(Len(path) - 1) |-> path[i + 1][1]]

\* Lines 295-297: the first node, then the last letter of every other node.
ContigOf(path) ==
    path[1] \o [i \in 1..(Len(path) - 1) |-> Last(path[i + 1])]

\* nx.has_path(G, i, j).
has_path(g, i, j) == i \in Ancestors(g, j)

ContigsOfPaths(pl) ==
    [p \in 1..Len(pl) |-> <<ContigOf(pl[p]), Len(ContigOf(pl[p]))>>]

\* The two loops of get_contigs from the pair (si, ej) of positions on.  (A
\* node that is both a source and a sink is isolated; the graphs build_graph
\* returns have none, so all_simple_paths is never asked for i = j here.)
RECURSIVE ContigsFrom(_, _, _, _, _)
ContigsFrom(g, starts, ends, si, ej) ==
    IF si > Len(starts) THEN <<>>
    ELSE IF ej > Len(ends) THEN ContigsFrom(g, starts, ends, si + 1, 1)
    ELSE (IF has_path(g, starts[si], ends[ej])
          THEN ContigsOfPaths(AllSimplePaths(g, starts[si], ends[ej]))
          ELSE <<>>)
         \o ContigsFrom(g, starts, ends, si, ej + 1)

get_contigs(g, starts, ends) == ContigsFrom(g, starts, ends, 1, 1)

InitTable ==
    /\ pc = "table"
    /\ err = "none"
    /\ kmer_size \in KmerSizes
    /\ kmer_dict \in Tables(kmer_size, MaxCountSum)
    /\ contigs = <<>>
    /\ graph = EmptyGraph
    /\ entry = EmptyGraph
    /\ IdleKmer /\ IdleBubble /\ IdleSelect /\ IdleEnd

BuildGraph ==
    /\ pc = "table"
    /\ graph' = build_graph(kmer_dict)
    /\ pc' = "built"
    /\ UNCHANGED <<err, kmerVars, tableVars, bubbleVars, selectVars, endVars>>

GetStartingNodesBuilt ==
    /\ pc = "built"
    /\ starting_nodes' = get_starting_nodes(graph)
    /\ pc' = "starts"
    /\ UNCHANGED <<err, graph, kmerVars, tableVars, bubbleVars, selectVars,
                   sink_nodes>>

GetContigs ==
    /\ pc = "done"
    /\ contigs' = get_contigs(graph, starting_nodes, sink_nodes)
    /\ pc' = "contigs"
    /\ UNCHANGED <<err, graph, kmerVars, kmer_dict, bubbleVars, selectVars, endVars>>

NextAssembly ==
    \/ BuildGraph
    \/ GetStartingNodesBuilt
    \/ GetSinkNodes
    \/ GetContigs

SpecAssembly == InitTable /\ [][NextAssembly]_vars

\* --------------------------------------------------------- build_kmer_dict
\* cut_kmer: read[i:i+kmer_size] for i in range(len(read) - kmer_size + 1).
cut_kmer(read, k) ==
    [i \in 1..(Len(read) - k + 1) |-> SubSeq(read, i, i + k - 1)]

DictHas(d, key) == \E i \in 1..Len(d) : d[i][1] = key

DictGet(d, key) == d[CHOOSE i \in 1..Len(d) : d[i][1] = key][2]

\* d[key] = val: a key of the dict keeps its place, a new one goes last.
DictSet(d, key, val) ==
    IF DictHas(d, key)
    THEN [i \in 1..Len(d) |-> IF d[i][1] = key THEN <<key, val>> ELSE d[i]]
    ELSE Append(d, <<key, val>>)

\* Lines 111-112: kmer_counts[i] = 0 for every k-mer of the read.
RECURSIVE ZeroAll(_, _)
ZeroAll(d, ks) ==
    IF ks = <<>> THEN d ELSE ZeroAll(DictSet(d, Head(ks), 0), Tail(ks))

\* Lines 113-114: kmer_counts[i] += 1 for every k-mer of the read.
RECURSIVE CountAll(_, _)
CountAll(d, ks) ==
    IF ks = <<>> THEN d
    ELSE CountAll(DictSet(d, Head(ks), DictGet(d, Head(ks)) + 1), Tail(ks))

Reads == UNION {[1..n -> TableLetters] : n \in 0..MaxReadLen}

InitKmer ==
    /\ pc = "reads"
    /\ err = "none"
    /\ kmer_size \in KmerSizes
    /\ reads \in UNION {[1..n -> Reads] : n \in 0..MaxReads}
    /\ read_idx = 0
    /\ kmer_counts = <<>>
    /\ graph = EmptyGraph
    /\ entry = EmptyGraph
    /\ IdleTable /\ IdleBubble /\ IdleSelect /\ IdleEnd

\* One turn of the loop of line 110: the next read's k-mers are set to 0,
\* then counted.
BuildKmerDictRead ==
    /\ pc = "reads"
    /\ read_idx < Len(reads)
    /\ LET ks == cut_kmer(reads[read_idx + 1], kmer_size)
       IN  kmer_counts' = CountAll(ZeroAll(kmer_counts, ks), ks)
    /\ read_idx' = read_idx + 1
    /\ UNCHANGED <<pc, err, graph, reads, kmer_size, tableVars, bubbleVars,
                   selectVars, endVars>>

\* Line 115: return kmer_counts.
BuildKmerDictReturn ==
    /\ pc = "reads"
    /\ read_idx = Len(reads)
    /\ pc' = "counted"
    /\ UNCHANGED <<err, graph, kmerVars, tableVars, bubbleVars, selectVars, endVars>>

NextKmer == BuildKmerDictRead \/ BuildKmerDictReturn

SpecKmer == InitKmer /\ [][NextKmer]_vars

\* ------------------------------------------------------------------ claims
InDegree(g, n) == Cardinality({e \in EdgeSet(g) : e[2] = n})
OutDegree(g, n) == Cardinality({e \in EdgeSet(g) : e[1] = n})
IsolatedNodes(g) == {n \in NodeSet(g) : InDegree(g, n) = 0 /\ OutDegree(g, n) = 0}

\* The list l holds exactly the elements of S, each once.
ListsExactly(l, S) == Range(l) = S /\ Len(l) = Cardinality(S)

\* Some two distinct direct predecessors of d have a common ancestor.
HasBubbleAt(g, d) ==
    \E i, j \in 1..Len(g.pred[d]) :
        /\ i < j
        /\ Ancestors(g, g.pred[d][i]) \cap Ancestors(g, g.pred[d][j]) # {}

NoBubble(g) == \A d \in NodeSet(g) : ~HasBubbleAt(g, d)

\* The bubbles <<ancestor, d>> of a graph.
Bubbles(g) ==
    {b \in NodeSet(g) \X NodeSet(g) :
        \E i, j \in 1..Len(g.pred[b[2]]) :
            /\ i < j
            /\ b[1] \in LowestCommonAncestors(g, g.pred[b[2]][i], g.pred[b[2]][j])}

\* Mean of the weights of the edges joining consecutive nodes of a walk.
ConsecutiveMean(g, path) ==
    LET step == [i \in 1..(Len(path) - 1) |-> g.weight[<<path[i], path[i + 1]>>]]
    IN  <<SumOver(step, DOMAIN step), Len(path) - 1>>

\* C3 (as stated; refuted): a bubble detected again at the same (ancestor,
\* node) pair on a graph that has not changed since the previous detection is
\* not resolved a second time: solve_bubble never runs on it.
C3_NoRepeatedResolution ==
    pc = "select" => prev # <<noeud_ancetre, node, graph>>

\* C4 (as stated; refuted even on the runs where every path kept stayed
\* whole): the graph simplify_bubbles returns has no bubble, and every bubble
\* of the graph it was called with is left as exactly one path from its
\* ancestor to its node.
C4_EveryBubbleOnePath ==
    (pc = "returned" /\ intact) =>
        /\ NoBubble(graph)
        /\ \A b \in Bubbles(entry) :
               /\ b[1] \in NodeSet(graph)
               /\ b[2] \in NodeSet(graph)
               /\ Len(AllSimplePaths(graph, b[1], b[2])) = 1

\* C4 (amended): the graph simplify_bubbles returns has no bubble, that is no
\* node with two distinct direct predecessors that have a common ancestor;
\* a bubble of the graph it was called with is left with at most one path
\* from its ancestor to its node, and with none when one of the two is gone.
C4_NoBubbleOnReturn ==
    pc = "returned" =>
        /\ NoBubble(graph)
        /\ \A b \in Bubbles(entry) :
               (b[1] \in NodeSet(graph) /\ b[2] \in NodeSet(graph))
                   => Len(AllSimplePaths(graph, b[1], b[2])) <= 1

\* A return after at least one bubble was collapsed to a single path.
C4_Witness ==
    /\ pc = "returned"
    /\ graph # entry
    /\ \E b \in Bubbles(entry) :
           /\ b[1] \in NodeSet(graph)
           /\ b[2] \in NodeSet(graph)
           /\ Len(AllSimplePaths(entry, b[1], b[2])) >= 2
           /\ Len(AllSimplePaths(graph, b[1], b[2])) = 1

\* C6 (as stated; refuted): the mean weight solve_bubble gets for each
\* candidate path is the mean over the edges joining consecutive nodes of
\* the path; chords do not count.
C6_MeanOverConsecutiveEdges ==
    pc = "select" =>
        \A i \in 1..Len(path_list) :
            MeanEq(weight_avg_list[i], ConsecutiveMean(graph, path_list[i]))

\* C9 (as stated; refuted): get_starting_nodes returns exactly the nodes of
\* in-degree 0, get_sink_nodes exactly those of out-degree 0, and the two are
\* disjoint whenever the graph has an edge.
C9_DisjointWhenEdge ==
    pc = "done" =>
        /\ ListsExactly(starting_nodes, {n \in NodeSet(graph) : InDegree(graph, n) = 0})
        /\ ListsExactly(sink_nodes, {n \in NodeSet(graph) : OutDegree(graph, n) = 0})
        /\ EdgeSet(graph) # {} => Range(starting_nodes) \cap Range(sink_nodes) = {}

\* C9 (amended): get_starting_nodes returns exactly the nodes of in-degree 0,
\* get_sink_nodes exactly those of out-degree 0, and the nodes in both are
\* exactly the isolated ones: the two are disjoint whenever every node has
\* an edge.
C9_SourcesAndSinks ==
    pc = "done" =>
        /\ ListsExactly(starting_nodes, {n \in NodeSet(graph) : InDegree(graph, n) = 0})
        /\ ListsExactly(sink_nodes, {n \in NodeSet(graph) : OutDegree(graph, n) = 0})
        /\ Range(starting_nodes) \cap Range(sink_nodes) = IsolatedNodes(graph)

\* Sources and sinks of a graph that bubble simplification has deleted nodes
\* from and that still has an edge.
C9_Witness ==
    /\ pc = "done"
    /\ graph # entry
    /\ EdgeSet(graph) # {}
    /\ starting_nodes # <<>>
    /\ sink_nodes # <<>>

\* C10 (as stated; refuted): solve_bubble is called for a node with an
\* ancestor that is a node of the graph and a common ancestor of two of the
\* node's direct predecessors, and both are still nodes once the bubble is
\* resolved.
C10_AncestorExists ==
    /\ pc = "solve" =>
           /\ noeud_ancetre \in NodeSet(graph)
           /\ \E i, j \in 1..Len(graph.pred[node]) :
                  /\ i < j
                  /\ noeud_ancetre \in Ancestors(graph, graph.pred[node][i])
                  /\ noeud_ancetre \in Ancestors(graph, graph.pred[node][j])
    /\ (pc = "scan" /\ prev # <<>>) =>
           /\ prev[1] \in NodeSet(graph)
           /\ prev[2] \in NodeSet(graph)

\* C1 (as stated; refuted): select_best_path, given two or more paths,
\* completes and removes all of them but one: one of greatest mean weight when
\* the mean weights differ, else one of greatest length when the lengths
\* differ, else any one.
C1_KeepsExactlyOne ==
    pc \in {"selected", "error"} =>
        /\ err = "none"
        /\ select \in 1..Len(path_list)
        /\ removed = CutOut(path_list, select)
        /\ Len(removed) = Len(path_list) - 1
        /\ WeightsDiffer(weight_avg_list) =>
               \A j \in 1..Len(path_list) :
                   ~MeanLess(weight_avg_list[select], weight_avg_list[j])
        /\ (~WeightsDiffer(weight_avg_list) /\ LengthsDiffer(path_length)) =>
               \A j \in 1..Len(path_list) : path_length[j] <= path_length[select]

\* C2 (as stated; refuted): once select_best_path has removed the discarded
\* paths, their interior nodes off the path kept are gone, their first node
\* is gone only if delete_entry_node and their last only if delete_sink_node,
\* and every node of the path kept is still in the graph (but an end that a
\* flag deletes).
C2_KeptPathUntouched ==
    pc = "selected" =>
        LET kept == path_list[select]
        IN  /\ \A i \in 1..Len(removed) :
                   LET p == removed[i]
                   IN  /\ \A k \in 2..(Len(p) - 1) :
                              p[k] \notin Range(kept) => p[k] \notin NodeSet(graph)
                       /\ p[1] \notin NodeSet(graph) => delete_entry_node
                       /\ Last(p) \notin NodeSet(graph) => delete_sink_node
            /\ \A n \in Range(kept) :
                   \/ n \in NodeSet(graph)
                   \/ delete_entry_node /\ n = kept[1]
                   \/ delete_sink_node /\ n = Last(kept)

Prefix(kmer) == SubSeq(kmer, 1, Len(kmer) - 1)
Suffix(kmer) == SubSeq(kmer, 2, Len(kmer))

\* C5: the graph build_graph returns has as nodes exactly the prefixes and
\* suffixes of the table's k-mers and as edges exactly one per k-mer, from
\* its prefix to its suffix, weighing the k-mer's count; the empty table
\* gives the empty graph.
C5_BuildGraph ==
    pc # "table" =>
        /\ NodeSet(graph) = {Prefix(m) : m \in Keys(kmer_dict)}
                                \cup {Suffix(m) : m \in Keys(kmer_dict)}
        /\ Len(graph.nodes) = Cardinality(NodeSet(graph))
        /\ EdgeSet(graph) = {<<Prefix(m), Suffix(m)>> : m \in Keys(kmer_dict)}
        /\ Cardinality(EdgeSet(graph)) = Len(kmer_dict)
        /\ \A i \in 1..Len(kmer_dict) :
               graph.weight[<<Prefix(kmer_dict[i][1]), Suffix(kmer_dict[i][1])>>]
                   = kmer_dict[i][2]
        /\ \A n \in NodeSet(graph) :
               /\ ListsExactly(graph.succ[n], {e[2] : e \in {f \in EdgeSet(graph) : f[1] = n}})
               /\ ListsExactly(graph.pred[n], {e[1] : e \in {f \in EdgeSet(graph) : f[2] = n}})
        /\ kmer_dict = <<>> => graph = EmptyGraph

\* A graph built from several k-mers, one of them counted more than once.
C5_Witness ==
    /\ pc = "built"
    /\ Len(kmer_dict) >= 3
    /\ \E i \in 1..Len(kmer_dict) : kmer_dict[i][2] >= 2

\* The simple paths from s to t, as a set.
SimplePathSet(g, s, t) ==
    {p \in UNION {[1..n -> NodeSet(g)] : n \in 2..Cardinality(NodeSet(g))} :
        /\ p[1] = s
        /\ p[Len(p)] = t
        /\ \A i, j \in 1..Len(p) : p[i] = p[j] => i = j
        /\ \A i \in 1..(Len(p) - 1) : <<p[i], p[i + 1]>> \in EdgeSet(g)}

\* The substrings of length w of c, in order.
Windows(c, w) == [i \in 1..(Len(c) - w + 1) |-> SubSeq(c, i, i + w - 1)]

\* C8: get_contigs returns one pair per simple path from a source to a sink
\* and no more; the pair of the path [n0, ..., nm] holds a sequence whose
\* substring at offset i is n_i, of length len(n0) + m, and that length.
C8_Contigs ==
    pc = "contigs" =>
        LET w == kmer_size - 1
            paths == UNION {SimplePathSet(graph, a, b) :
                               a \in Range(starting_nodes), b \in Range(sink_nodes)}
        IN  /\ Len(contigs) = Cardinality(paths)
            /\ {Windows(contigs[i][1], w) : i \in 1..Len(contigs)} = paths
            /\ \A i \in 1..Len(contigs) :
                   /\ contigs[i][2] = Len(contigs[i][1])
                   /\ contigs[i][2] = w + Len(Windows(contigs[i][1], w)) - 1

\* Two contigs, one of them over a path of three nodes or more.
C8_Witness ==
    /\ pc = "contigs"
    /\ Len(contigs) >= 2
    /\ \E i \in 1..Len(contigs) : contigs[i][2] >= kmer_size + 1

\* How often the k-mer m occurs in a read.
Occurrences(m, read) ==
    Cardinality({i \in 1..(Len(read) - Len(m) + 1) :
                    SubSeq(read, i, i + Len(m) - 1) = m})

RECURSIVE TotalOccurrences(_, _, _)
TotalOccurrences(m, rs, n) ==
    IF n = 0 THEN 0
    ELSE Occurrences(m, rs[n]) + TotalOccurrences(m, rs, n - 1)

\* C7 (as stated; refuted): after any number of reads the dictionary maps
\* each k-mer met so far to the number of its occurrences in all the reads
\* done, and holds no other k-mer.
C7_CountsAccumulate ==
    \A m \in Kmers(kmer_size) :
        LET total == TotalOccurrences(m, reads, read_idx)
        IN  /\ DictHas(kmer_counts, m) <=> total > 0
            /\ DictHas(kmer_counts, m) => DictGet(kmer_counts, m) = total

============================================================================
